---- MODULE Spec2Model ----
(***************************************************************************)
(* A model of the rihlat transit assistant: the SQL agent and the routes   *)
(* agent of agents.py, the four tools of tools.py, the dispatcher of       *)
(* rihlat.send_to_llm and the input processing of app.py.                  *)
(*                                                                         *)
(* A Python str is a sequence of tokens, so that concatenation, strip()    *)
(* and formatting are computed and not assumed.  A Python value is a       *)
(* tagged record (None, Str, Num, List, Dict).  A call of a function of    *)
(* the program is an operator that yields the call's outcome (a returned   *)
(* value or a raised exception) together with the external effects it      *)
(* performed, in order (HTTP requests, model calls, database operations).  *)
(***************************************************************************)
EXTENDS Integers, Sequences, FiniteSets, TLC

VARIABLES
    script,         \* the script streamlit runs: "app.py" or "newfront.py"
    secrets_file,   \* whether a secrets.toml exists (st.secrets can be parsed)
    secrets,        \* st.secrets: key -> None | Str
    agent,          \* a long-lived GTFSQueryAgent object
    routes_agent,   \* a long-lived RoutesAgent object
    last,           \* the last component-level call: operation, inputs, outcome, effects
    pc,             \* send_to_llm: the dispatcher's state
    iterations,     \* send_to_llm: the agent executor's iteration count
    tool,           \* send_to_llm: the tool the model picked
    n_obs,          \* send_to_llm: how many tool results the model's context holds
    last_obs,       \* send_to_llm: the tool result added to the context last
    error_seen,     \* send_to_llm: a tool invocation of this turn returned an error payload
    output,         \* send_to_llm: what the turn returned or raised
    app_pc,         \* app.py: "rerun" when st.rerun() has asked for a script run
    messages,       \* app.py: st.session_state.messages
    audio_data,     \* app.py: st.session_state.audio_data
    input_key,      \* app.py: st.session_state.input_key
    history,        \* app.py: st.session_state.history
    runs,           \* app.py: how many script runs the user has started
    last_run,       \* app.py: what the last script run did
    loop            \* an asyncio event loop: its thread, the _arun in progress, the other task

compVars == <<agent, routes_agent, last>>
envVars == <<script, secrets_file, secrets>>
turnVars == <<pc, iterations, tool, n_obs, last_obs, error_seen, output>>
loopVars == <<loop>>
appVars == <<app_pc, messages, audio_data, input_key, history, runs, last_run>>
vars == <<script, secrets_file, secrets, agent, routes_agent, last,
          pc, iterations, tool, n_obs, last_obs, error_seen, output,
          app_pc, messages, audio_data, input_key, history, runs, last_run, loop>>

----------------------------------------------------------------------------
(* Python values *)

None == [t |-> "None"]
Str(s) == [t |-> "str", v |-> s]
Num(n) == [t |-> "num", v |-> n]
List(s) == [t |-> "list", v |-> s]
Dict(d) == [t |-> "dict", v |-> d]

\* bool(v) for the values the code tests: None and "" are false
Truthy(v) == /\ v.t # "None"
             /\ ~(v.t = "str" /\ Len(v.v) = 0)

Return(v) == [k |-> "return", v |-> v]
Raise(cls, msg) == [k |-> "raise", cls |-> cls, msg |-> msg]

\* the result of a call: its outcome and the external effects it performed
Res(out, eff) == [out |-> out, eff |-> eff]

\* how many effects of one kind a call performed
Count(eff, kind) == Len(SelectSeq(eff, LAMBDA e : e.kind = kind))

HasKey(v, key) == v.t = "dict" /\ key \in DOMAIN v.v

Whitespace == {" ", "\n"}

\* str.strip(): drop the leading and the trailing whitespace tokens
RECURSIVE LStrip(_)
LStrip(s) == IF s # <<>> /\ Head(s) \in Whitespace THEN LStrip(Tail(s)) ELSE s

RECURSIVE RStrip(_)
RStrip(s) ==
    IF s # <<>> /\ s[Len(s)] \in Whitespace THEN RStrip(SubSeq(s, 1, Len(s) - 1)) ELSE s

\* a strip() that drops the leading whitespace only
Strip_LeftOnly(s) == LStrip(s)

Strip(s) == RStrip(LStrip(s))

----------------------------------------------------------------------------
(* Secrets *)

SecretKeys == {"SAMBANOVA_API_KEY", "TOMTOM_API_KEY", "BINGMAPS_KEY", "ELEVENLABS_KEY"}
SecretValues == {None, Str(<<>>), Str(<<"k">>)}

NoSecretsFile == Raise("FileNotFoundError", <<"No secrets files found.">>)

\* st.secrets[key]
SecretsIndex(key) ==
    IF ~secrets_file THEN NoSecretsFile
    ELSE IF secrets[key] = None THEN Raise("KeyError", <<"'", key, "'">>)
    ELSE Return(secrets[key])

\* st.secrets.get(key, default)
SecretsGet(key, default) ==
    IF ~secrets_file THEN NoSecretsFile
    ELSE IF secrets[key] = None THEN Return(default)
    ELSE Return(secrets[key])

----------------------------------------------------------------------------
(* The environment of agents.py: the language model and the SQLite driver *)

\* completions of the SQL-generation model (response.content): a read statement
\* in whitespace, a write statement, text that is no SQL, and a 'name|query' text
Completions ==
    { <<" ", "SELECT * FROM routes LIMIT 5", "\n">>,
      <<"DROP TABLE routes">>,
      <<"\n", "Sure! Here is the query:", "\n", "SELECT 1", " ">>,
      <<"dubai_gtfs", "|", "SELECT * FROM stops">> }

\* completions of the location-extraction model
LocationCompletions ==
    { <<"['Dubai Mall', 'Palm Jumeirah']">>, <<"Sure! The locations are">>,
      <<"42">>, <<"exit()">> }

\* what self._model.invoke(prompt) can do: an exception of the client, or a completion.
\* A client built with an empty key gets no completion.
LlmReplies(model, contents) ==
    IF Truthy(model.api_key)
    THEN { Raise("APIConnectionError", <<"Connection error.">>) }
         \cup { [k |-> "ok", content |-> c] : c \in contents }
    ELSE { Raise("AuthenticationError", <<"Error code: 401">>) }

\* exception classes of the driver that derive from sqlite3.Error
SqliteErrorClasses == {"sqlite3.OperationalError", "sqlite3.ProgrammingError"}
IsSqliteError(cls) == cls \in SqliteErrorClasses

\* what executing a generated query can do: rows, or an exception at connect(),
\* at execute() or at fetchall().  sqlite3.Warning does not derive from sqlite3.Error.
DbOutcomes ==
    { [k |-> "rows", rows |-> << <<"E101">>, <<"MGrn">> >>],
      [k |-> "raise", at |-> "connect", cls |-> "sqlite3.OperationalError",
       msg |-> <<"unable to open database file">>],
      [k |-> "raise", at |-> "execute", cls |-> "sqlite3.OperationalError",
       msg |-> <<"near \"Sure\": syntax error">>],
      [k |-> "raise", at |-> "execute", cls |-> "sqlite3.Warning",
       msg |-> <<"You can only execute one statement at a time.">>] }

RoutesTable ==
    [name |-> "routes",
     cols |-> << [name |-> "route_short_name", type |-> "TEXT"],
                 [name |-> "route_long_name", type |-> "TEXT"] >>]
StopsTable == [name |-> "stops", cols |-> << [name |-> "stop_lat", type |-> "REAL"] >>]

\* what the catalog scan of _initialize can do: the tables in catalog order, each
\* with its columns in declared order, or an exception of the driver
ScanOutcomes ==
    { [k |-> "ok", tables |-> << RoutesTable, StopsTable >>],
      [k |-> "raise", at |-> "execute", cls |-> "sqlite3.OperationalError",
       msg |-> <<"database disk image is malformed">>] }

----------------------------------------------------------------------------
(* agents.py: GTFSQueryAgent *)

\* sep.join(parts), each part a str
RECURSIVE Join(_, _)
Join(sep, parts) ==
    IF parts = << >> THEN << >>
    ELSE IF Len(parts) = 1 THEN parts[1]
    ELSE parts[1] \o <<sep>> \o Join(sep, Tail(parts))

\* GTFSQueryAgent.__init__
NewGTFSQueryAgent(db_path) ==
    [db_path |-> db_path, top_k |-> 5, _model |-> None, _sys_msg |-> None,
     _hum_msg |-> None, _table_info |-> None, _initialized |-> FALSE]

\* a get_table_info that lists the columns last to first
get_table_info_Reversed(cols) ==
    Join("\n", [i \in 1..Len(cols) |->
                  <<"Column: ", cols[Len(cols) + 1 - i].name,
                    ", Type: ", cols[Len(cols) + 1 - i].type>>])

\* GTFSQueryAgent.get_table_info: one "Column: <name>, Type: <type>" line per column
get_table_info(cols) ==
    Join("\n", [i \in 1..Len(cols) |->
                  <<"Column: ", cols[i].name, ", Type: ", cols[i].type>>])

\* the table_info text of _initialize: one block per table, joined by blank lines
RenderTableInfo(tables) ==
    Join("\n\n", [i \in 1..Len(tables) |->
                    <<"Database: merged_gtfs.db\nTable: ", tables[i].name, "\n">>
                    \o get_table_info(tables[i].cols)])

\* the database operations of the catalog scan, up to the failure if there is one
ScanEffects(db_path, scan) ==
    IF scan.k = "raise" /\ scan.at = "connect"
    THEN << [kind |-> "connect", db |-> db_path, ok |-> FALSE] >>
    ELSE IF scan.k = "raise"
    THEN << [kind |-> "connect", db |-> db_path, ok |-> TRUE],
            [kind |-> "scan", stmt |-> "sqlite_master"] >>
    ELSE << [kind |-> "connect", db |-> db_path, ok |-> TRUE],
            [kind |-> "scan", stmt |-> "sqlite_master"] >>
         \o [i \in 1..Len(scan.tables) |-> [kind |-> "scan", stmt |-> scan.tables[i].name]]
         \o << [kind |-> "close", db |-> db_path] >>

\* an _initialize that raises its flag before the steps that can fail
_initialize_FlagFirst(ag, scan) ==
    IF ag._initialized THEN [out |-> Return(None), eff |-> << >>, agent |-> ag]
    ELSE
        LET ag1 == [ag EXCEPT !._initialized = TRUE,
                              !._sys_msg = Str(<<"sys_msg">>), !._hum_msg = Str(<<"hum_msg">>)]
            key == SecretsIndex("SAMBANOVA_API_KEY")
        IN  IF key.k = "raise" THEN [out |-> key, eff |-> << >>, agent |-> ag1]
            ELSE
                LET ag2 == [ag1 EXCEPT !._model = [t |-> "ChatOpenAI", api_key |-> key.v]]
                IN  IF scan.k = "raise"
                    THEN [out |-> Raise(scan.cls, scan.msg),
                          eff |-> ScanEffects(ag.db_path, scan), agent |-> ag2]
                    ELSE [out |-> Return(None),
                          eff |-> ScanEffects(ag.db_path, scan),
                          agent |-> [ag2 EXCEPT !._table_info = Str(RenderTableInfo(scan.tables))]]

\* GTFSQueryAgent._initialize: yields the outcome, the effects and the agent afterwards
_initialize(ag, scan) ==
    IF ag._initialized THEN [out |-> Return(None), eff |-> << >>, agent |-> ag]
    ELSE
        LET ag1 == [ag EXCEPT !._sys_msg = Str(<<"sys_msg">>), !._hum_msg = Str(<<"hum_msg">>)]
            key == SecretsIndex("SAMBANOVA_API_KEY")
        IN  IF key.k = "raise" THEN [out |-> key, eff |-> << >>, agent |-> ag1]
            ELSE
                LET ag2 == [ag1 EXCEPT !._model = [t |-> "ChatOpenAI", api_key |-> key.v]]
                IN  IF scan.k = "raise"
                    THEN [out |-> Raise(scan.cls, scan.msg),
                          eff |-> ScanEffects(ag.db_path, scan), agent |-> ag2]
                    ELSE [out |-> Return(None),
                          eff |-> ScanEffects(ag.db_path, scan),
                          agent |-> [ag2 EXCEPT !._table_info = Str(RenderTableInfo(scan.tables)),
                                                !._initialized = TRUE]]

\* the table_info property: yields the outcome, the effects and the agent afterwards
table_info(ag, scan) ==
    LET init == _initialize(ag, scan) IN
    IF init.out.k = "raise" THEN init
    ELSE [out |-> Return(init.agent._table_info), eff |-> init.eff, agent |-> init.agent]

\* a run_query that reports a fixed text and loses the driver's message
RunQueryErrorMessage_Generic(msg) == <<"SQLite error">>

\* the message run_query puts in its error descriptor
RunQueryErrorMessage(msg) == <<"SQLite error: ">> \o msg

\* GTFSQueryAgent.run_query
run_query(db_path, query, db) ==
    IF db.k = "rows"
    THEN Res(Return(List(db.rows)),
             << [kind |-> "connect", db |-> db_path, ok |-> TRUE],
                [kind |-> "sql", stmt |-> query],
                [kind |-> "close", db |-> db_path] >>)
    ELSE
        LET eff == IF db.at = "connect"
                   THEN << [kind |-> "connect", db |-> db_path, ok |-> FALSE] >>
                   ELSE << [kind |-> "connect", db |-> db_path, ok |-> TRUE],
                           [kind |-> "sql", stmt |-> query] >>
        IN  IF IsSqliteError(db.cls)
            THEN Res(Return(Dict([errors |-> Str(RunQueryErrorMessage(db.msg))])), eff)
            ELSE Res(Raise(db.cls, db.msg), eff)

\* the text after the first '|' of a 'name|query' text, the whole text if it has none
RECURSIVE AfterBar(_, _)
AfterBar(s, whole) ==
    IF s = << >> THEN whole
    ELSE IF Head(s) = "|" THEN Tail(s)
    ELSE AfterBar(Tail(s), whole)

\* a payload whose 'query' is the completion without its 'name|' prefix
WriteQueryPayload_NamePrefixDropped(query, results) ==
    Dict([query |-> Str(AfterBar(query, query)), results |-> results, errors |-> None])

\* the payload of write_query when the model call and run_query returned
WriteQueryPayload(query, results) ==
    Dict([query |-> Str(query), results |-> results, errors |-> None])

\* the effect of one call of the model
LlmCall(prompt) == [kind |-> "llm", prompt |-> prompt]

\* GTFSQueryAgent.write_query: yields the outcome, the effects and the agent afterwards
write_query(ag, question, scan, llm, db) ==
    LET init == _initialize(ag, scan) IN
    IF init.out.k = "raise" THEN init
    ELSE
        LET prompt == [table_info |-> init.agent._table_info, input |-> question,
                       top_k |-> init.agent.top_k]
            eff1 == init.eff \o << LlmCall(prompt) >>
        IN  IF llm.k = "raise"
            THEN [out |-> Return(Dict([query |-> None, results |-> None,
                                       errors |-> Str(llm.msg)])),
                  eff |-> eff1, agent |-> init.agent]
            ELSE
                LET query == Strip(llm.content)
                    rq == run_query(init.agent.db_path, query, db)
                IN  IF rq.out.k = "raise"
                    THEN [out |-> Return(Dict([query |-> None, results |-> None,
                                               errors |-> Str(rq.out.msg)])),
                          eff |-> eff1 \o rq.eff, agent |-> init.agent]
                    ELSE [out |-> Return(WriteQueryPayload(query, rq.out.v)),
                          eff |-> eff1 \o rq.eff, agent |-> init.agent]

----------------------------------------------------------------------------
(* The environment of tools.py: the HTTP providers *)

Leg ==
    [itineraryItems |-> << [instruction |-> [text |-> Str(<<"Walk to Dubai Mall Metro">>)]],
                           [instruction |-> [text |-> Str(<<"Take MRed">>)]] >>,
     actualStart |-> Dict([coordinates |-> <<25, 55>>]),
     actualEnd |-> Dict([coordinates |-> <<26, 56>>])]

\* a complete routing document
FullRoute ==
    [resourceSets |-> << [resources |-> << [routeLegs |-> << Leg >>,
                                             travelDistance |-> Num(12),
                                             travelDuration |-> Num(1800)] >>] >>]

\* routing documents that lack an expected field
NoRouteLegs ==
    [resourceSets |-> << [resources |-> << [routeLegs |-> << >>,
                                             travelDistance |-> Num(12),
                                             travelDuration |-> Num(1800)] >>] >>]
NoResources == [resourceSets |-> << [resources |-> << >>] >>]
NoResourceSets == [errorDetails |-> Str(<<"no route">>)]
NoTravelDistance ==
    [resourceSets |-> << [resources |-> << [routeLegs |-> << Leg >>,
                                             travelDuration |-> Num(1800)] >>] >>]
NoInstruction ==
    [resourceSets |-> << [resources |-> << [routeLegs |->
          << [itineraryItems |-> << [details |-> Str(<<"x">>)] >>,
              actualStart |-> Dict([coordinates |-> <<25, 55>>]),
              actualEnd |-> Dict([coordinates |-> <<26, 56>>])] >>,
                                             travelDistance |-> Num(12),
                                             travelDuration |-> Num(1800)] >>] >>]

MalformedRoutes == {NoRouteLegs, NoResources, NoResourceSets, NoTravelDistance, NoInstruction}

\* a geocoding document
GeoDoc == [results |-> << [position |-> [lat |-> 25, lon |-> 55]] >>]

\* the body of a response: text that is not JSON, or a JSON document
NotJson == [json |-> FALSE]
Json(doc) == [json |-> TRUE, val |-> doc]

Response(status, text, body) == [k |-> "resp", status |-> status, text |-> text, body |-> body]

\* what requests.get can do: raise, or return a response
ConnectionRefused == Raise("ConnectionError", <<"Connection refused">>)

\* of the geocoding provider
GeocodingHttpOutcomes ==
    { ConnectionRefused,
      Response(200, <<"body">>, NotJson),
      Response(200, <<"body">>, Json(GeoDoc)),
      Response(201, <<"Created">>, Json(GeoDoc)),
      Response(404, <<"Not Found">>, NotJson) }

\* of the routing provider
RoutingHttpOutcomes ==
    { ConnectionRefused,
      Response(200, <<"body">>, NotJson),
      Response(200, <<"body">>, Json(FullRoute)),
      Response(404, <<"Not Found">>, NotJson) }
    \cup { Response(200, <<"body">>, Json(d)) : d \in MalformedRoutes }

----------------------------------------------------------------------------
(* tools.py *)

ErrorDict(msg) == Dict([error |-> Str(msg)])

\* {k: v for k, v in params.items() if v is not None}
DropNone(params) == [k \in {x \in DOMAIN params : params[x] # None} |-> params[k]]

HttpGet(url, params) == [kind |-> "http", url |-> url, params |-> DropNone(params)]

ApiCallFailed(resp) ==
    <<"API call failed with status code ", ToString(resp.status), ": ">> \o resp.text

\* the steps of a path into a JSON document: a key of an object, an index of a list
Key(k) == [t |-> "key", k |-> k]
Idx(i) == [t |-> "idx", i |-> i]

\* doc[step1][step2]...: the value, or the KeyError or IndexError of the first
\* step the document lacks
RECURSIVE Walk(_, _)
Walk(doc, path) ==
    IF path = << >> THEN Return(doc)
    ELSE LET s == Head(path) IN
         IF s.t = "key"
         THEN IF s.k \in DOMAIN doc THEN Walk(doc[s.k], Tail(path))
              ELSE Raise("KeyError", <<"'", s.k, "'">>)
         ELSE IF s.i + 1 <= Len(doc) THEN Walk(doc[s.i + 1], Tail(path))
              ELSE Raise("IndexError", <<"list index out of range">>)

ResourcePath == << Key("resourceSets"), Idx(0), Key("resources"), Idx(0) >>
LegPath == ResourcePath \o << Key("routeLegs"), Idx(0) >>

\* [item['instruction']['text'] for item in itinerary_items]
RECURSIVE Instructions(_)
Instructions(items) ==
    IF items = << >> THEN Return(<< >>)
    ELSE LET one == Walk(Head(items), << Key("instruction"), Key("text") >>)
         IN  IF one.k = "raise" THEN one
             ELSE LET rest == Instructions(Tail(items))
                  IN  IF rest.k = "raise" THEN rest ELSE Return(<<one.v>> \o rest.v)

\* the result the routing code builds from the decoded response, or the exception
\* of the first field the response lacks
ExtractRoute(doc) ==
    LET items == Walk(doc, LegPath \o << Key("itineraryItems") >>) IN
    IF items.k = "raise" THEN items
    ELSE LET instr == Instructions(items.v) IN
    IF instr.k = "raise" THEN instr
    ELSE LET start == Walk(doc, LegPath \o << Key("actualStart") >>) IN
    IF start.k = "raise" THEN start
    ELSE LET end == Walk(doc, LegPath \o << Key("actualEnd") >>) IN
    IF end.k = "raise" THEN end
    ELSE LET dist == Walk(doc, ResourcePath \o << Key("travelDistance") >>) IN
    IF dist.k = "raise" THEN dist
    ELSE LET dur == Walk(doc, ResourcePath \o << Key("travelDuration") >>) IN
    IF dur.k = "raise" THEN dur
    ELSE Return(Dict([start_coords |-> start.v, end_coords |-> end.v,
                      travelDistance |-> dist.v, travelDuration |-> dur.v,
                      instructions |-> List(instr.v)]))

\* the all-null result
EmptyRoute ==
    Dict([start_coords |-> None, end_coords |-> None, travelDistance |-> None,
          travelDuration |-> None, instructions |-> List(<< >>)])

\* a response.json() that raises on no body: text that is not JSON comes back as
\* a document holding the text
ResponseJson_NoDecodeError(resp) ==
    IF resp.body.json THEN Return(resp.body.val) ELSE Return([raw |-> Str(resp.text)])

\* response.json()
ResponseJson(resp) ==
    IF resp.body.json THEN Return(resp.body.val)
    ELSE Raise("JSONDecodeError", <<"Expecting value: line 1 column 1 (char 0)">>)

\* a GTFSCoordinatorTool._run without its try/except
GTFSCoordinatorTool_run_NoCatch(query, scan, llm, db) ==
    LET wq == write_query(NewGTFSQueryAgent("merged_gtfs.db"), query, scan, llm, db) IN
    Res(wq.out, wq.eff)

\* GTFSCoordinatorTool._run
GTFSCoordinatorTool_run(query, scan, llm, db) ==
    LET wq == write_query(NewGTFSQueryAgent("merged_gtfs.db"), query, scan, llm, db) IN
    IF wq.out.k = "raise"
    THEN Res(Return(Str(<<"Error: ">> \o wq.out.msg)), wq.eff)
    ELSE Res(wq.out, wq.eff)

\* the arguments GeocodingTool._run gets when the caller leaves them out
GeocodingRunDefaults == [limit |-> Num(10), language |-> Str(<<"en-US">>), ext |-> "json"]

\* a GeocodingTool._run that asks the provider again after a failed request
GeocodingTool_run_Retry(query, a, http) ==
    LET api_key == SecretsGet("TOMTOM_API_KEY", None) IN
    IF api_key.k = "raise" THEN Res(Return(ErrorDict(api_key.msg)), << >>)
    ELSE IF ~Truthy(api_key.v)
    THEN Res(Return(ErrorDict(<<"API key is missing from secrets.toml">>)), << >>)
    ELSE
        LET params == [key |-> api_key.v, limit |-> a.limit, language |-> a.language,
                       lat |-> None, lon |-> None, radius |-> None, countrySet |-> None]
            request_url == <<"https://api.tomtom.com/search/2/geocode", "/", query, ".", a.ext>>
            once == << HttpGet(request_url, params) >>
        IN  IF http.k = "raise" THEN Res(Return(ErrorDict(http.msg)), once \o once)
            ELSE IF http.status # 200
            THEN Res(Return(ErrorDict(ApiCallFailed(http))), once \o once)
            ELSE LET body == ResponseJson(http) IN
                 IF body.k = "raise" THEN Res(Return(ErrorDict(body.msg)), once)
                 ELSE Res(Return(Dict(body.v)), once)

\* GeocodingTool._run(query, limit=a.limit, language=a.language, ext=a.ext)
GeocodingTool_run(query, a, http) ==
    LET api_key == SecretsGet("TOMTOM_API_KEY", None) IN
    IF api_key.k = "raise" THEN Res(Return(ErrorDict(api_key.msg)), << >>)
    ELSE IF ~Truthy(api_key.v)
    THEN Res(Return(ErrorDict(<<"API key is missing from secrets.toml">>)), << >>)
    ELSE
        LET params == [key |-> api_key.v, limit |-> a.limit, language |-> a.language,
                       lat |-> None, lon |-> None, radius |-> None, countrySet |-> None]
            request_url == <<"https://api.tomtom.com/search/2/geocode", "/", query, ".", a.ext>>
            eff == << HttpGet(request_url, params) >>
        IN  IF http.k = "raise" THEN Res(Return(ErrorDict(http.msg)), eff)
            ELSE IF http.status # 200 THEN Res(Return(ErrorDict(ApiCallFailed(http))), eff)
            ELSE LET body == ResponseJson(http) IN
                 IF body.k = "raise" THEN Res(Return(ErrorDict(body.msg)), eff)
                 ELSE Res(Return(Dict(body.v)), eff)

\* CurrentDateTime._run
CurrentDateTime_run(query, now) ==
    Res(Return(Str(<<"The current date and time is: ", now>>)), << >>)

RoutingUrl == <<"http://dev.virtualearth.net/REST/v1/Routes/transit">>

\* TransitRoutingTool._run(origin, destination, key=key), the other arguments defaulted
TransitRoutingTool_run(origin, destination, key, http) ==
    LET api_key == IF Truthy(key) THEN Return(key) ELSE SecretsGet("BINGMAPS_KEY", None) IN
    IF api_key.k = "raise" THEN Res(Return(ErrorDict(api_key.msg)), << >>)
    ELSE IF ~Truthy(api_key.v)
    THEN Res(Return(ErrorDict(
             <<"API key is missing. Provide it in secrets or as an input parameter.">>)), << >>)
    ELSE
        LET params == [waypoint_1 |-> Str(origin), waypoint_2 |-> Str(destination),
                       optimize |-> Str(<<"time">>), avoid |-> None,
                       distanceUnit |-> Str(<<"km">>), dateTime |-> None,
                       maxSolutions |-> Num(1), key |-> api_key.v]
            eff == << HttpGet(RoutingUrl, params) >>
        IN  IF http.k = "raise" THEN Res(Return(ErrorDict(http.msg)), eff)
            ELSE IF http.status # 200 THEN Res(Return(ErrorDict(ApiCallFailed(http))), eff)
            ELSE LET body == ResponseJson(http) IN
                 IF body.k = "raise" THEN Res(Return(ErrorDict(body.msg)), eff)
                 ELSE LET results == ExtractRoute(body.v) IN
                      IF results.k = "raise" THEN Res(Return(ErrorDict(results.msg)), eff)
                      ELSE Res(results, eff)

----------------------------------------------------------------------------
(* agents.py: RoutesAgent *)

\* RoutesAgent.__init__
NewRoutesAgent == [initialized |-> FALSE, model |-> None]

\* RoutesAgent.initialize: yields the outcome and the agent afterwards
RoutesAgent_initialize(ra) ==
    IF ra.initialized THEN [out |-> Return(None), agent |-> ra]
    ELSE LET key == SecretsIndex("SAMBANOVA_API_KEY") IN
         IF key.k = "raise" THEN [out |-> key, agent |-> ra]
         ELSE [out |-> Return(None),
               agent |-> [initialized |-> TRUE,
                          model |-> [t |-> "ChatOpenAI", api_key |-> key.v]]]

\* eval(text) of a completion: the list the text denotes, or the exception of a
\* text that is no Python expression
PyEval(text) ==
    IF text = <<"['Dubai Mall', 'Palm Jumeirah']">>
    THEN Return(List(<< <<"Dubai Mall">>, <<"Palm Jumeirah">> >>))
    ELSE IF text = <<"42">> THEN Return(Num(42))
    ELSE IF text = <<"exit()">> THEN Raise("SystemExit", <<"None">>)
    ELSE Raise("SyntaxError", <<"invalid syntax">>)

\* except Exception catches the classes that derive from Exception
DerivesFromException(cls) == cls \notin {"SystemExit", "KeyboardInterrupt", "GeneratorExit"}

\* enumerate(waypoints, start=1): a value that cannot be iterated raises
Enumerate(waypoints) ==
    IF waypoints.t = "list" THEN Return(waypoints)
    ELSE Raise("TypeError", <<"object is not iterable">>)

\* RoutesAgent.extract_locations, on an initialised agent
extract_locations(ra, question, llm) ==
    LET eff == << LlmCall([input |-> question]) >> IN
    IF llm.k = "raise" THEN Res(llm, eff)
    ELSE Res(PyEval(Strip(llm.content)), eff)

\* RoutesAgent.fetch_response(question), the other arguments defaulted: yields the
\* outcome, the effects and the agent afterwards
fetch_response(ra, question, llm, http) ==
    LET init == RoutesAgent_initialize(ra) IN
    IF init.out.k = "raise" THEN [out |-> Return(EmptyRoute), eff |-> << >>, agent |-> init.agent]
    ELSE LET api_key == SecretsIndex("BINGMAPS_KEY") IN
    IF api_key.k = "raise" THEN [out |-> Return(EmptyRoute), eff |-> << >>, agent |-> init.agent]
    ELSE IF ~Truthy(api_key.v)
    THEN [out |-> Return(ErrorDict(
              <<"API key is missing. Provide it in secrets or as an input parameter.">>)),
          eff |-> << >>, agent |-> init.agent]
    ELSE LET waypoints == extract_locations(init.agent, question, llm) IN
    IF waypoints.out.k = "raise" /\ ~DerivesFromException(waypoints.out.cls)
    THEN [out |-> waypoints.out, eff |-> waypoints.eff, agent |-> init.agent]
    ELSE IF waypoints.out.k = "raise"
    THEN [out |-> Return(EmptyRoute), eff |-> waypoints.eff, agent |-> init.agent]
    ELSE IF Enumerate(waypoints.out.v).k = "raise"
    THEN [out |-> Return(EmptyRoute), eff |-> waypoints.eff, agent |-> init.agent]
    ELSE
        LET params == [optimize |-> Str(<<"time">>), avoid |-> None,
                       distanceUnit |-> Str(<<"km">>), dateTime |-> None,
                       maxSolutions |-> None, key |-> api_key.v,
                       waypoints |-> waypoints.out.v]
            eff == waypoints.eff \o << HttpGet(RoutingUrl, params) >>
        IN  IF http.k = "raise" THEN [out |-> Return(EmptyRoute), eff |-> eff, agent |-> init.agent]
            ELSE IF http.status # 200
            THEN [out |-> Return(ErrorDict(ApiCallFailed(http))), eff |-> eff, agent |-> init.agent]
            ELSE LET body == ResponseJson(http) IN
                 IF body.k = "raise"
                 THEN [out |-> Return(EmptyRoute), eff |-> eff, agent |-> init.agent]
                 ELSE LET results == ExtractRoute(body.v) IN
                      IF results.k = "raise"
                      THEN [out |-> Return(EmptyRoute), eff |-> eff, agent |-> init.agent]
                      ELSE [out |-> results, eff |-> eff, agent |-> init.agent]

----------------------------------------------------------------------------
(* Component-level calls: each action is one call of a function of agents.py or *)
(* tools.py by a caller outside the model, with the environment's answers drawn  *)
(* from the sets above.                                                          *)

Questions == { <<"When is route 10 arriving?">> }
Queries == { <<"SELECT * FROM routes LIMIT 5">> }
Places == { <<"Dubai Mall">> }
Clock == { "2025-01-01 10:00:00" }
KeyArguments == { None, Str(<<"arg-key">>) }
GeocodingArguments ==
    { GeocodingRunDefaults,
      [limit |-> Num(1), language |-> Str(<<"en">>), ext |-> "json"] }

\* the model an agent calls after _initialize succeeded on it
ModelOf(ag) == ag._model

Record(op, in, r) == [op |-> op, in |-> in, out |-> r.out, eff |-> r.eff]

CallWriteQuery ==
    \E q \in Questions, scan \in ScanOutcomes, db \in DbOutcomes :
        LET init == _initialize(agent, scan) IN
        \E llm \in (IF init.out.k = "raise"
                    THEN {Raise("APIConnectionError", <<"Connection error.">>)}
                    ELSE LlmReplies(init.agent._model, Completions)) :
            LET r == write_query(agent, q, scan, llm, db) IN
            /\ agent' = r.agent
            /\ last' = Record("write_query",
                              [was_initialized |-> agent._initialized, scan |-> scan,
                               llm |-> llm, db |-> db], r)
            /\ UNCHANGED <<routes_agent, envVars, loopVars, turnVars, appVars>>

CallRunQuery ==
    \E query \in Queries, db \in DbOutcomes :
        /\ last' = Record("run_query", [query |-> query, db |-> db],
                          run_query(agent.db_path, query, db))
        /\ UNCHANGED <<agent, routes_agent, envVars, loopVars, turnVars, appVars>>

CallGTFSCoordinator ==
    \E q \in Questions, scan \in ScanOutcomes, db \in DbOutcomes :
        LET init == _initialize(NewGTFSQueryAgent("merged_gtfs.db"), scan) IN
        \E llm \in (IF init.out.k = "raise"
                    THEN {Raise("APIConnectionError", <<"Connection error.">>)}
                    ELSE LlmReplies(init.agent._model, Completions)) :
            /\ last' = Record("GTFSCoordinatorTool._run",
                              [scan |-> scan, llm |-> llm, db |-> db],
                              GTFSCoordinatorTool_run(q, scan, llm, db))
            /\ UNCHANGED <<agent, routes_agent, envVars, loopVars, turnVars, appVars>>

CallGeocoding ==
    \E place \in Places, a \in GeocodingArguments, http \in GeocodingHttpOutcomes :
        /\ last' = Record("GeocodingTool._run", [http |-> http],
                          GeocodingTool_run(place, a, http))
        /\ UNCHANGED <<agent, routes_agent, envVars, loopVars, turnVars, appVars>>

CallCurrentDateTime ==
    \E query \in {None} \cup { Str(q) : q \in Questions }, now \in Clock :
        /\ last' = Record("CurrentDateTime._run", [now |-> now],
                          CurrentDateTime_run(query, now))
        /\ UNCHANGED <<agent, routes_agent, envVars, loopVars, turnVars, appVars>>

CallTransitRouting ==
    \E origin \in Places, destination \in Places, key \in KeyArguments, http \in RoutingHttpOutcomes :
        /\ last' = Record("TransitRoutingTool._run", [key |-> key, http |-> http],
                          TransitRoutingTool_run(origin, destination, key, http))
        /\ UNCHANGED <<agent, routes_agent, envVars, loopVars, turnVars, appVars>>

CallFetchResponse ==
    \E q \in Questions, http \in RoutingHttpOutcomes :
        LET init == RoutesAgent_initialize(routes_agent) IN
        \E llm \in (IF init.out.k = "raise"
                    THEN {Raise("APIConnectionError", <<"Connection error.">>)}
                    ELSE LlmReplies(init.agent.model, LocationCompletions)) :
            LET r == fetch_response(routes_agent, q, llm, http) IN
            /\ routes_agent' = r.agent
            /\ last' = Record("fetch_response", [llm |-> llm, http |-> http], r)
            /\ UNCHANGED <<agent, envVars, loopVars, turnVars, appVars>>

NoCall == [op |-> "none", in |-> << >>, out |-> Return(None), eff |-> << >>]

\* the process-wide configuration: with no secrets file every key is absent
InitEnv ==
    /\ script = "app.py"
    /\ secrets_file \in BOOLEAN
    /\ secrets \in [SecretKeys -> SecretValues]
    /\ ~secrets_file => \A key \in SecretKeys : secrets[key] = None
    /\ secrets_file => secrets["ELEVENLABS_KEY"] = Str(<<"k">>)

NoOutput == [k |-> "none"]

\* the event loop with no _arun awaited and its thread free
NoArun == [thread |-> "free", pc |-> "idle", tool |-> "none", ticks |-> 0]

InitComponents ==
    /\ agent = NewGTFSQueryAgent("merged_gtfs.db")
    /\ routes_agent = NewRoutesAgent
    /\ last = NoCall
    /\ loop = NoArun

\* the tool the model picked and the Action Input it gave
Picked(name, input) == [name |-> name, input |-> input]
NoTool == Picked("none", << >>)

\* no dispatch turn has started
InitTurn ==
    /\ pc = "idle"
    /\ iterations = 0
    /\ tool = NoTool
    /\ n_obs = 0
    /\ last_obs = None
    /\ error_seen = FALSE
    /\ output = NoOutput

\* SESSION_DEFAULTS
InitSession ==
    /\ app_pc = "idle"
    /\ messages = << >>
    /\ audio_data = None
    /\ input_key = 0
    /\ history = << >>
    /\ runs = 0
    /\ last_run = [branch |-> "none", llm |-> NoOutput, ended |-> "end"]

Init ==
    /\ InitEnv
    /\ InitComponents
    /\ InitTurn
    /\ InitSession

Next ==
    \/ CallWriteQuery
    \/ CallRunQuery
    \/ CallGTFSCoordinator
    \/ CallGeocoding
    \/ CallCurrentDateTime
    \/ CallTransitRouting
    \/ CallFetchResponse

Spec == Init /\ [][Next]_vars

----------------------------------------------------------------------------
(* The schema text of GTFSQueryAgent over several databases and agent objects *)

RoutesTableReordered ==
    [name |-> "routes",
     cols |-> << [name |-> "route_long_name", type |-> "TEXT"],
                 [name |-> "route_short_name", type |-> "TEXT"] >>]
EmptyTable == [name |-> "feed_info", cols |-> << >>]

\* the catalogs a database can hold: the tables in catalog order, each with its
\* columns in declared order
Schemas ==
    { << >>,
      << RoutesTable >>,
      << RoutesTableReordered >>,
      << RoutesTable, StopsTable >>,
      << StopsTable, RoutesTable >>,
      << EmptyTable, StopsTable >> }

\* what the catalog scan can do over these databases
SchemaScans ==
    { [k |-> "ok", tables |-> tables] : tables \in Schemas }
    \cup { [k |-> "raise", at |-> "execute", cls |-> "sqlite3.OperationalError",
            msg |-> <<"database disk image is malformed">>] }

NoBuild == [k |-> "none"]

\* the latest construction of a schema text before this call: the catalog it
\* scanned and the text it built
PrevBuild ==
    IF /\ last.op = "table_info"
       /\ last.out.k = "return"
       /\ ~last.in.was_initialized
    THEN [k |-> "built", tables |-> last.in.scan.tables, text |-> last.out.v]
    ELSE IF last.op \in {"table_info", "GTFSQueryAgent"} THEN last.in.prev
    ELSE NoBuild

\* agent.table_info on the long-lived agent object
CallTableInfo ==
    \E scan \in SchemaScans :
        LET r == table_info(agent, scan) IN
        /\ agent' = r.agent
        /\ last' = Record("table_info",
                          [was_initialized |-> agent._initialized, scan |-> scan,
                           prev |-> PrevBuild], r)
        /\ UNCHANGED <<routes_agent, envVars, loopVars, turnVars, appVars>>

\* agent = GTFSQueryAgent(db_path): a new object takes the place of the old one
NewAgent ==
    /\ agent' = NewGTFSQueryAgent("merged_gtfs.db")
    /\ last' = Record("GTFSQueryAgent", [prev |-> PrevBuild],
                      Res(Return(None), << >>))
    /\ UNCHANGED <<routes_agent, envVars, loopVars, turnVars, appVars>>

SchemaInit == Init

SchemaNext ==
    \/ CallTableInfo
    \/ CallWriteQuery
    \/ NewAgent

SchemaSpec == SchemaInit /\ [][SchemaNext]_vars

----------------------------------------------------------------------------
(* rihlat.py: send_to_llm.  initialize_agent builds an agent executor over the  *)
(* four Tool wrappers; agent.run loops: the model is asked for a decision, a    *)
(* picked tool is invoked through its wrapper and its result is added to the    *)
(* model's context, until the model gives its final answer or the executor's     *)
(* iteration limit is reached.                                                   *)

\* the iteration limit of the executor initialize_agent builds: send_to_llm passes none
max_iterations == 15

StoppedMessage == <<"Agent stopped due to iteration limit or time limit.">>

ToolNames == {"GeocodingTool", "TransitRoutingTool", "CurrentDateTime", "GTFSCoordinatorTool"}

\* the wrapper made to return every result to the caller as the final answer
WrapperReturnDirect_Set(name) == TRUE

\* return_direct of the wrapper Tool(name=..., func=..., description=...) send_to_llm
\* builds: the argument is not passed, and the wrapped tool's own flag is not read
WrapperReturnDirect(name) == FALSE

\* the Action Input of the model: one string
ToolInputs == { <<"Dubai Mall">> }
FinalAnswers == { <<"Route 10 arrives at 10:05.">> }

\* what asking the model for a decision can do: the client raises, the completion
\* cannot be parsed (the executor raises), a tool is picked, or the final answer
PlanReplies ==
    IF Truthy(secrets["SAMBANOVA_API_KEY"])
    THEN { Raise("APIConnectionError", <<"Connection error.">>),
           Raise("ValueError", <<"An output parsing error occurred.">>) }
         \cup { [k |-> "action", tool |-> t, input |-> i] : t \in ToolNames, i \in ToolInputs }
         \cup { [k |-> "finish", answer |-> a] : a \in FinalAnswers }
    ELSE { Raise("AuthenticationError", <<"Error code: 401">>) }

\* the outcomes of GTFSCoordinatorTool._run over the answers of its environment
CoordinatorOutcomes(query) ==
    UNION { LET init == _initialize(NewGTFSQueryAgent("merged_gtfs.db"), scan) IN
            { GTFSCoordinatorTool_run(query, scan, llm, db).out :
                llm \in (IF init.out.k = "raise"
                         THEN {Raise("APIConnectionError", <<"Connection error.">>)}
                         ELSE LlmReplies(init.agent._model, Completions)),
                db \in DbOutcomes }
          : scan \in ScanOutcomes }

\* func(input) of each wrapper: the run of the wrapped tool on the one string the
\* model gave.  TransitRoutingTool._run has two required parameters, origin and
\* destination, so its run on one string raises.
ToolOutcomes(name, input) ==
    CASE name = "GeocodingTool" ->
           { GeocodingTool_run(input, GeocodingRunDefaults, http).out :
               http \in GeocodingHttpOutcomes }
      [] name = "TransitRoutingTool" ->
           { Raise("ValidationError", <<"RoutingInput", "destination", "Field required">>) }
      [] name = "CurrentDateTime" ->
           { CurrentDateTime_run(Str(input), now).out : now \in Clock }
      [] name = "GTFSCoordinatorTool" -> CoordinatorOutcomes(input)

\* a result that reports a failure
IsErrorPayload(v) ==
    \/ HasKey(v, "error")
    \/ HasKey(v, "errors") /\ v.v.errors # None
    \/ v.t = "str" /\ Len(v.v) > 0 /\ Head(v.v) = "Error: "

Returned(from, v) == [k |-> "return", from |-> from, v |-> v]

\* send_to_llm has returned or raised to its caller: its locals are gone
EndTurn ==
    /\ pc' = "idle"
    /\ iterations' = 0
    /\ tool' = NoTool
    /\ n_obs' = 0
    /\ last_obs' = None
    /\ error_seen' = FALSE
    /\ output' = NoOutput

\* send_to_llm from its first line to the call of agent.run: the tools, the client
\* (api_key=st.secrets["SAMBANOVA_API_KEY"]), the wrappers and the agent
BeginTurn ==
    LET key == SecretsIndex("SAMBANOVA_API_KEY") IN
    /\ iterations' = 0
    /\ tool' = NoTool
    /\ n_obs' = 0
    /\ last_obs' = None
    /\ error_seen' = FALSE
    /\ IF key.k = "raise"
       THEN pc' = "raised" /\ output' = key
       ELSE pc' = "awaiting_decision" /\ output' = NoOutput

\* awaiting-decision: the model is asked to pick a tool or to answer
AgentPlan ==
    /\ pc = "awaiting_decision"
    /\ \E reply \in PlanReplies :
         CASE reply.k = "raise" ->
                /\ pc' = "raised"
                /\ output' = reply
                /\ UNCHANGED tool
           [] reply.k = "action" ->
                /\ pc' = "invoking_tool"
                /\ tool' = Picked(reply.tool, reply.input)
                /\ UNCHANGED output
           [] reply.k = "finish" ->
                /\ pc' = "composing_answer"
                /\ output' = Returned("agent_finish", Str(reply.answer))
                /\ UNCHANGED tool
    /\ UNCHANGED <<iterations, n_obs, last_obs, error_seen>>
    /\ UNCHANGED <<envVars, loopVars, compVars, appVars>>

\* invoking-tool: the wrapper's func runs; its result joins the model's context
InvokeTool ==
    /\ pc = "invoking_tool"
    /\ \E r \in ToolOutcomes(tool.name, tool.input) :
         IF r.k = "raise"
         THEN /\ pc' = "raised"
              /\ output' = r
              /\ UNCHANGED <<iterations, n_obs, last_obs, error_seen>>
         ELSE /\ n_obs' = n_obs + 1
              /\ last_obs' = r.v
              /\ error_seen' = (error_seen \/ IsErrorPayload(r.v))
              /\ IF WrapperReturnDirect(tool.name)
                 THEN /\ pc' = "done"
                      /\ output' = Returned("return_direct", r.v)
                      /\ UNCHANGED iterations
                 ELSE /\ iterations' = iterations + 1
                      /\ IF iterations + 1 < max_iterations
                         THEN pc' = "awaiting_decision" /\ UNCHANGED output
                         ELSE /\ pc' = "done"
                              /\ output' = Returned("stopped", Str(StoppedMessage))
    /\ UNCHANGED tool
    /\ UNCHANGED <<envVars, loopVars, compVars, appVars>>

\* composing-answer: the model's final answer becomes the value agent.run returns
ComposeAnswer ==
    /\ pc = "composing_answer"
    /\ pc' = "done"
    /\ UNCHANGED <<iterations, tool, n_obs, last_obs, error_seen, output>>
    /\ UNCHANGED <<envVars, loopVars, compVars, appVars>>

\* a caller calls send_to_llm(app_query)
StartTurn ==
    /\ pc = "idle"
    /\ BeginTurn
    /\ UNCHANGED <<envVars, loopVars, compVars, appVars>>

\* done: agent.run returns the answer and send_to_llm returns it; or the exception
\* leaves send_to_llm
ReturnToCaller ==
    /\ pc \in {"done", "raised"}
    /\ EndTurn
    /\ UNCHANGED <<envVars, loopVars, compVars, appVars>>

DispatchInit == Init

DispatchNext ==
    \/ StartTurn
    \/ AgentPlan
    \/ InvokeTool
    \/ ComposeAnswer
    \/ ReturnToCaller

DispatchSpec == DispatchInit /\ [][DispatchNext]_vars

\* send_to_llm is one sequential call chain: a step that can be taken is taken
FairDispatchSpec == DispatchSpec /\ WF_vars(AgentPlan \/ InvokeTool \/ ComposeAnswer)

\* the ways one iteration of the executor's loop ends the run: the model's reply
\* raises, the model declares a final answer, the wrapper raises, or the wrapper
\* is return_direct
IterationEnds ==
    LET actions == { r \in PlanReplies : r.k = "action" } IN
    { r \in PlanReplies : r.k = "raise" }
    \cup { Returned("agent_finish", Str(r.answer)) :
             r \in { x \in PlanReplies : x.k = "finish" } }
    \cup UNION { { o \in ToolOutcomes(r.tool, r.input) : o.k = "raise" } : r \in actions }
    \cup UNION { { Returned("return_direct", o.v) :
                     o \in { x \in ToolOutcomes(r.tool, r.input) : x.k = "return" } } :
                 r \in { x \in actions : WrapperReturnDirect(x.tool) } }

\* an iteration can hand a tool's result back to the model
IterationGoesOn ==
    \E r \in { x \in PlanReplies : x.k = "action" } :
       /\ ~WrapperReturnDirect(r.tool)
       /\ \E o \in ToolOutcomes(r.tool, r.input) : o.k = "return"

\* what agent.run can return or raise from iteration i on
RECURSIVE RunOutcomes(_, _, _)
RunOutcomes(i, ends, goes_on) ==
    ends \cup
    IF ~goes_on THEN {}
    ELSE IF i + 1 < max_iterations THEN RunOutcomes(i + 1, ends, goes_on)
    ELSE { Returned("stopped", Str(StoppedMessage)) }

\* what one call of send_to_llm can return or raise
send_to_llm ==
    LET key == SecretsIndex("SAMBANOVA_API_KEY") IN
    IF key.k = "raise" THEN {key} ELSE RunOutcomes(0, IterationEnds, IterationGoesOn)

----------------------------------------------------------------------------
(* tools.py: the asynchronous variants, awaited by one task of an event loop *)
(* that also runs another task                                               *)

\* how many steps the other task of the event loop takes
MaxTicks == 2

\* the arguments GeocodingTool._arun gets when the caller leaves them out
GeocodingArunDefaults == [limit |-> Num(10), language |-> Str(<<"en">>), ext |-> "json"]

\* whether the _arun hands the synchronous call to a worker (run_in_executor,
\* asyncio.to_thread): each _arun calls self._run, or the same code, in its own body
Offloaded(name) == FALSE

\* GeocodingTool._arun(query, ...): a None for the arguments the caller left
\* out, which then take the defaults of the _arun signature; self._run is called
\* with all of them
GeocodingTool_arun(query, given, http) ==
    GeocodingTool_run(query, IF given = None THEN GeocodingArunDefaults ELSE given, http)

\* GeocodingTool._run(query, ...) called the same way: the arguments left out
\* take the defaults of the _run signature
GeocodingTool_run_Given(query, given, http) ==
    GeocodingTool_run(query, IF given = None THEN GeocodingRunDefaults ELSE given, http)

\* TransitRoutingTool._arun: return self._run(origin, destination, ..., key)
TransitRoutingTool_arun(origin, destination, key, http) ==
    TransitRoutingTool_run(origin, destination, key, http)

\* CurrentDateTime._arun: the code of _run once more
CurrentDateTime_arun(query, now) ==
    Res(Return(Str(<<"The current date and time is: ", now>>)), << >>)

\* GTFSCoordinatorTool._arun: the code of _run once more, the callbacks awaited
GTFSCoordinatorTool_arun(query, scan, llm, db) ==
    LET wq == write_query(NewGTFSQueryAgent("merged_gtfs.db"), query, scan, llm, db) IN
    IF wq.out.k = "raise"
    THEN Res(Return(Str(<<"Error: ">> \o wq.out.msg)), wq.eff)
    ELSE Res(wq.out, wq.eff)

\* the outcome of an _arun together with what _run gives when it is called the
\* same way in the same surroundings
Paired(given, async, sync) ==
    [out |-> async.out, eff |-> async.eff, given |-> given, sync |-> sync]

\* what the body of each _arun gives
ArunOutcomes(name) ==
    CASE name = "GeocodingTool" ->
           { Paired(given, GeocodingTool_arun(place, given, http),
                    GeocodingTool_run_Given(place, given, http)) :
               place \in Places, given \in {None} \cup GeocodingArguments,
               http \in GeocodingHttpOutcomes }
      [] name = "TransitRoutingTool" ->
           { Paired(key, TransitRoutingTool_arun(origin, origin, key, http),
                    TransitRoutingTool_run(origin, origin, key, http)) :
               origin \in Places, key \in KeyArguments, http \in RoutingHttpOutcomes }
      [] name = "CurrentDateTime" ->
           { Paired(None, CurrentDateTime_arun(None, now), CurrentDateTime_run(None, now)) :
               now \in Clock }
      [] name = "GTFSCoordinatorTool" ->
           UNION { LET init == _initialize(NewGTFSQueryAgent("merged_gtfs.db"), scan) IN
                   { Paired(None, GTFSCoordinatorTool_arun(q, scan, llm, db),
                            GTFSCoordinatorTool_run(q, scan, llm, db)) :
                       q \in Questions,
                       llm \in (IF init.out.k = "raise"
                                THEN {Raise("APIConnectionError", <<"Connection error.">>)}
                                ELSE LlmReplies(init.agent._model, Completions)),
                       db \in DbOutcomes }
                 : scan \in ScanOutcomes }

\* a task awaits tool._arun(...): the coroutine's body starts in that task, on
\* the loop's thread, and calls the synchronous code
ArunEnter ==
    /\ loop.pc = "idle"
    /\ loop.thread = "free"
    /\ \E name \in ToolNames :
         loop' = [loop EXCEPT !.pc = "in_run", !.tool = name,
                              !.thread = IF Offloaded(name) THEN "free" ELSE "arun"]
    /\ UNCHANGED <<envVars, compVars, turnVars, appVars>>

\* the synchronous code returns and with it the coroutine
ArunReturn ==
    /\ loop.pc = "in_run"
    /\ \E r \in ArunOutcomes(loop.tool) :
         last' = Record("_arun", [tool |-> loop.tool, given |-> r.given, sync |-> r.sync], r)
    /\ loop' = [loop EXCEPT !.pc = "idle", !.thread = "free"]
    /\ UNCHANGED <<agent, routes_agent, envVars, turnVars, appVars>>

\* the other task of the loop runs up to its next await
OtherTask ==
    /\ loop.thread = "free"
    /\ loop.ticks < MaxTicks
    /\ loop' = [loop EXCEPT !.ticks = loop.ticks + 1]
    /\ UNCHANGED <<envVars, compVars, turnVars, appVars>>

AsyncInit == Init

AsyncNext ==
    \/ ArunEnter
    \/ ArunReturn
    \/ OtherTask

AsyncSpec == AsyncInit /\ [][AsyncNext]_vars

----------------------------------------------------------------------------
(* app.py: the input processing of one script run *)

\* how many script runs the user starts (submissions and reruns)
MaxRuns == 3

TextInputs == { << >>, <<"When is route 10 arriving?">> }
AudioInputs == { None, Str(<<"wav">>) }

Message(role, content) == [role |-> role, content |-> content]

\* rihlat.play_text(response, st.secrets["ELEVENLABS_KEY"]): the secret is read,
\* then the speech provider and the player can fail
PlayTextOutcomes ==
    LET key == SecretsIndex("ELEVENLABS_KEY") IN
    IF key.k = "raise" THEN {key}
    ELSE { Return(None), Raise("ApiError", <<"text-to-speech failed">>) }

\* rihlat.transcribe_audio(f.name, st.secrets["SAMBANOVA_API_KEY"]): the secret is
\* read, the recording is posted, the transcript is taken from the response and
\* send_to_llm answers it
transcribe_audio ==
    LET key == SecretsIndex("SAMBANOVA_API_KEY") IN
    IF key.k = "raise" THEN {key}
    ELSE { Raise("KeyError", <<"'choices'">>) } \cup send_to_llm

\* what a script run did: the branch it took, what send_to_llm gave it, how it ended
RunRecord(branch, llm, ended) == [branch |-> branch, llm |-> llm, ended |-> ended]

\* a submission that keeps the pending audio when no audio was recorded
SubmittedAudio_KeepPending(audio, pending) == IF audio = None THEN pending ELSE audio

\* st.session_state.audio_data = audio_input.getvalue() if audio_input else None
SubmittedAudio(audio, pending) == audio

\* the record of a submitted run, with the audio that was submitted
SubmittedRun(run, audio) ==
    [branch |-> run.branch, llm |-> run.llm, ended |-> run.ended, audio |-> audio]

\* a script run with the form submitted: if submitted: ... st.rerun()
Submit ==
    /\ app_pc = "idle"
    /\ runs < MaxRuns
    /\ runs' = runs + 1
    /\ \E text \in TextInputs, audio \in AudioInputs :
         /\ audio_data' = SubmittedAudio(audio, audio_data)
         /\ IF Truthy(Str(text))
            THEN /\ history' = Append(history, <<"Text: ">> \o text \o <<"...">>)
                 /\ \E response \in send_to_llm :
                      LET asked == Append(messages, Message("user", Str(text))) IN
                      IF response.k = "raise"
                      THEN /\ messages' = asked
                           /\ app_pc' = "idle"
                           /\ last_run' = SubmittedRun(RunRecord("text", response, "exception"), audio)
                           /\ UNCHANGED input_key
                      ELSE /\ messages' = Append(asked, Message("assistant", response.v))
                           /\ \E play \in PlayTextOutcomes :
                                IF play.k = "raise"
                                THEN /\ app_pc' = "idle"
                                     /\ last_run' = SubmittedRun(RunRecord("text", response, "exception"), audio)
                                     /\ UNCHANGED input_key
                                ELSE /\ app_pc' = "rerun"
                                     /\ last_run' = SubmittedRun(RunRecord("text", response, "rerun"), audio)
                                     /\ input_key' = input_key + 1
            ELSE /\ input_key' = input_key + 1
                 /\ app_pc' = "rerun"
                 /\ last_run' = SubmittedRun(RunRecord("none", NoOutput, "rerun"), audio)
                 /\ UNCHANGED <<messages, history>>
    /\ UNCHANGED <<envVars, loopVars, compVars, turnVars>>

\* a script run with nothing submitted (after st.rerun(), or started by the user):
\* if st.session_state.audio_data: try ... except.  After the answer is appended
\* st.info() is called without its required argument; the TypeError is caught.
Rerun ==
    /\ \/ app_pc = "rerun" /\ UNCHANGED runs
       \/ app_pc = "idle" /\ runs < MaxRuns /\ runs' = runs + 1
    /\ app_pc' = "idle"
    /\ IF Truthy(audio_data)
       THEN \E response \in transcribe_audio :
              IF response.k = "raise"
              THEN /\ last_run' = RunRecord("audio", response, "caught")
                   /\ UNCHANGED messages
              ELSE /\ messages' = Append(messages, Message("assistant", response.v))
                   /\ last_run' = RunRecord("audio", response, "caught")
       ELSE /\ last_run' = RunRecord("none", NoOutput, "end")
            /\ UNCHANGED messages
    /\ UNCHANGED <<audio_data, input_key, history>>
    /\ UNCHANGED <<envVars, loopVars, compVars, turnVars>>

\* the configurations of the session specification: the keys of the two map
\* providers are set; the keys of the model and of the speech provider vary
InitSessionEnv ==
    /\ script = "app.py"
    /\ secrets_file \in BOOLEAN
    /\ secrets \in [SecretKeys -> SecretValues]
    /\ ~secrets_file => \A key \in SecretKeys : secrets[key] = None
    /\ secrets_file => /\ secrets["TOMTOM_API_KEY"] = Str(<<"k">>)
                       /\ secrets["BINGMAPS_KEY"] = Str(<<"k">>)
                       /\ secrets["ELEVENLABS_KEY"] # Str(<< >>)

AppInit ==
    /\ InitSessionEnv
    /\ InitComponents
    /\ InitTurn
    /\ InitSession

AppNext ==
    \/ Submit
    \/ Rerun

AppSpec == AppInit /\ [][AppNext]_vars

----------------------------------------------------------------------------
(* newfront.py: the input processing of one script run *)

\* the words of BUS_ROUTES and of get_bus_response that message.lower() holds
WordsIn(message) ==
    CASE message = <<"When is route 10 arriving?">> -> {"route 10", "route"}
      [] message = <<"Route 10 arrives at 10:05.">> -> {"route 10", "route"}
      [] OTHER -> {}

\* newfront.get_bus_response(message)
get_bus_response(message) ==
    LET words == WordsIn(message) IN
    IF "route 10" \in words
    THEN <<"Route ", "ROUTE 10", ": Next arrival in ", "15 minutes", ". Stations: ",
           "Al Qouz, Mall of Emirates, Dubai Marina">>
    ELSE IF "route 15" \in words
    THEN <<"Route ", "ROUTE 15", ": Next arrival in ", "22 minutes", ". Stations: ",
           "Deira, Dubai Creek, Bur Dubai">>
    ELSE IF "route" \in words
    THEN <<"ROUTE 10", ": ", "15 minutes", " - ", "Al Qouz, Mall of Emirates, Dubai Marina",
           "\n", "ROUTE 15", ": ", "22 minutes", " - ", "Deira, Dubai Creek, Bur Dubai">>
    ELSE IF "help" \in words \/ "info" \in words
    THEN <<"I can help you with bus routes in Dubai. Try asking 'When is route 10?' or 'Show routes'">>
    ELSE <<"I didn't understand. Ask about specific bus routes or say 'help'.">>

\* a list that holds only the new entry
AppendMessage_Replace(list, role, content) == << Message(role, content) >>

\* st.session_state.messages.append({"role": role, "content": content})
AppendMessage(list, role, content) == Append(list, Message(role, content))

\* newfront.play_text(response, key): the speech provider and the player can fail
NewfrontPlayTextOutcomes ==
    { Return(None), Raise("ApiError", <<"text-to-speech failed">>) }

\* rihlat.transcribe_audio(f.name, key), the key a literal of the script
NewfrontTranscribeOutcomes ==
    { Raise("KeyError", <<"'choices'">>) } \cup send_to_llm

\* newfront.py with the form submitted: if submitted: ... st.rerun()
NewfrontSubmit ==
    /\ app_pc = "idle"
    /\ runs < MaxRuns
    /\ runs' = runs + 1
    /\ \E text \in TextInputs, audio \in AudioInputs :
         /\ audio_data' = audio
         /\ IF Truthy(Str(text))
            THEN LET response == Return(Str(get_bus_response(text))) IN
                 /\ history' = Append(history, <<"Text: ">> \o text \o <<"...">>)
                 /\ messages' = AppendMessage(AppendMessage(messages, "user", Str(text)),
                                              "assistant", response.v)
                 /\ \E play \in NewfrontPlayTextOutcomes :
                      IF play.k = "raise"
                      THEN /\ app_pc' = "idle"
                           /\ last_run' = RunRecord("text", response, "exception")
                           /\ UNCHANGED input_key
                      ELSE /\ app_pc' = "rerun"
                           /\ last_run' = RunRecord("text", response, "rerun")
                           /\ input_key' = input_key + 1
            ELSE /\ input_key' = input_key + 1
                 /\ app_pc' = "rerun"
                 /\ last_run' = RunRecord("none", NoOutput, "rerun")
                 /\ UNCHANGED <<messages, history>>
    /\ UNCHANGED <<envVars, loopVars, compVars, turnVars>>

\* newfront.py with nothing submitted: if st.session_state.audio_data: try ...
\* except.  st.rerun() at the end of the try is not caught by except Exception.
NewfrontRerun ==
    /\ \/ app_pc = "rerun" /\ UNCHANGED runs
       \/ app_pc = "idle" /\ runs < MaxRuns /\ runs' = runs + 1
    /\ IF Truthy(audio_data)
       THEN \E transcription \in NewfrontTranscribeOutcomes :
              IF transcription.k = "raise"
              THEN /\ last_run' = RunRecord("audio", transcription, "caught")
                   /\ app_pc' = "idle"
                   /\ UNCHANGED <<messages, history, audio_data>>
              ELSE LET said == transcription.v.v
                       response == Str(get_bus_response(said))
                   IN  /\ messages' = AppendMessage(
                                AppendMessage(messages, "user",
                                              Str(<<"(microphone) Audio: ">> \o said)),
                                "assistant", response)
                       /\ history' = Append(history, <<"Audio: ">> \o said \o <<"...">>)
                       /\ \E play \in NewfrontPlayTextOutcomes :
                            IF play.k = "raise"
                            THEN /\ last_run' = RunRecord("audio", transcription, "caught")
                                 /\ app_pc' = "idle"
                                 /\ UNCHANGED audio_data
                            ELSE /\ last_run' = RunRecord("audio", transcription, "rerun")
                                 /\ app_pc' = "rerun"
                                 /\ audio_data' = None
       ELSE /\ last_run' = RunRecord("none", NoOutput, "end")
            /\ app_pc' = "idle"
            /\ UNCHANGED <<messages, history, audio_data>>
    /\ UNCHANGED input_key
    /\ UNCHANGED <<envVars, loopVars, compVars, turnVars>>

----------------------------------------------------------------------------
(* A session of either front end *)

SessionInit ==
    /\ script \in {"app.py", "newfront.py"}
    /\ secrets_file \in BOOLEAN
    /\ secrets \in [SecretKeys -> SecretValues]
    /\ ~secrets_file => \A key \in SecretKeys : secrets[key] = None
    /\ secrets_file => /\ secrets["TOMTOM_API_KEY"] = Str(<<"k">>)
                       /\ secrets["BINGMAPS_KEY"] = Str(<<"k">>)
                       /\ secrets["ELEVENLABS_KEY"] # Str(<< >>)
    /\ InitComponents
    /\ InitTurn
    /\ InitSession

SessionNext ==
    \/ script = "app.py" /\ Submit
    \/ script = "app.py" /\ Rerun
    \/ script = "newfront.py" /\ NewfrontSubmit
    \/ script = "newfront.py" /\ NewfrontRerun

SessionSpec == SessionInit /\ [][SessionNext]_vars

----------------------------------------------------------------------------
(* Properties of the component-level calls (specification Spec) *)

\* whether st.secrets holds a non-empty value for the key
Configured(key) == secrets_file /\ Truthy(secrets[key])

GenerationFailed ==
    /\ last.op = "write_query"
    /\ last.out.k = "return"
    /\ last.in.llm.k = "ok"
    /\ last.in.db.k = "raise"

\* C1: when the generated SQL fails to execute, the payload write_query returns
\* has a non-null 'errors' and a null 'results'.
C1_SqlFailureInErrorField ==
    GenerationFailed =>
        /\ last.out.v.v.errors # None
        /\ last.out.v.v.results = None

MissingKeyCall ==
    \/ last.op = "GeocodingTool._run" /\ ~Configured("TOMTOM_API_KEY")
    \/ last.op = "TransitRoutingTool._run" /\ last.in.key = None /\ ~Configured("BINGMAPS_KEY")
    \/ last.op = "fetch_response" /\ ~Configured("BINGMAPS_KEY")

\* C2: a call of GeocodingTool._run, of TransitRoutingTool._run without a key
\* argument or of RoutesAgent.fetch_response whose API key is not configured or is
\* empty returns a mapping with an 'error' entry and performs no HTTP request and
\* no model call.
C2_MissingKeyIsError ==
    MissingKeyCall =>
        /\ last.out.k = "return"
        /\ HasKey(last.out.v, "error")
        /\ Count(last.eff, "http") = 0
        /\ Count(last.eff, "llm") = 0

MalformedRoutingResponse ==
    /\ last.op = "TransitRoutingTool._run"
    /\ Count(last.eff, "http") = 1
    /\ last.in.http.k = "resp"
    /\ last.in.http.status = 200
    /\ last.in.http.body.json
    /\ last.in.http.body.val \in MalformedRoutes

\* C3: for a routing response with status 200 whose body lacks an expected field,
\* TransitRoutingTool._run returns the all-empty result and does not raise.
C3_MalformedRouteIsEmptyResult ==
    MalformedRoutingResponse => last.out = Return(EmptyRoute)

\* C4 as stated: run_query returns the rows, or an error descriptor whose message
\* is the driver's message with nothing added or removed, and does not raise on an
\* error of the driver.
C4_DriverMessageVerbatim ==
    last.op = "run_query" =>
        /\ last.in.db.k = "rows" =>
              /\ last.out.k = "return"
              /\ last.out.v.t = "list"
              /\ last.out.v.v = last.in.db.rows
        /\ (last.in.db.k = "raise" /\ IsSqliteError(last.in.db.cls)) =>
              /\ last.out.k = "return"
              /\ HasKey(last.out.v, "errors")
              /\ last.out.v.v.errors = Str(last.in.db.msg)

\* C4 as amended: run_query returns the rows, or, when the driver raises an
\* sqlite3.Error, an error descriptor whose message is the fixed prefix
\* "SQLite error: " followed by the driver's message verbatim; it raises on no
\* sqlite3.Error.
C4_DriverMessagePrefixed ==
    last.op = "run_query" =>
        /\ last.in.db.k = "rows" =>
              /\ last.out.k = "return"
              /\ last.out.v.t = "list"
              /\ last.out.v.v = last.in.db.rows
        /\ (last.in.db.k = "raise" /\ IsSqliteError(last.in.db.cls)) =>
              /\ last.out.k = "return"
              /\ DOMAIN last.out.v.v = {"errors"}
              /\ last.out.v.v.errors.t = "str"
              /\ Len(last.out.v.v.errors.v) = 1 + Len(last.in.db.msg)
              /\ Head(last.out.v.v.errors.v) = "SQLite error: "
              /\ Tail(last.out.v.v.errors.v) = last.in.db.msg

C4_Witness ==
    /\ last.op = "run_query"
    /\ last.in.db.k = "raise"
    /\ last.in.db.cls = "sqlite3.OperationalError"
    /\ last.out.k = "return"
    /\ HasKey(last.out.v, "errors")

ToolOps ==
    {"GeocodingTool._run", "TransitRoutingTool._run", "GTFSCoordinatorTool._run",
     "CurrentDateTime._run"}

\* C5: whatever the upstream outcomes, the _run of the four tools returns a value
\* and propagates no exception, and CurrentDateTime._run returns the success text.
C5_ToolsNeverRaise ==
    /\ last.op \in ToolOps => last.out.k = "return"
    /\ last.op = "CurrentDateTime._run" =>
          /\ last.out.v.t = "str"
          /\ last.out.v.v = <<"The current date and time is: ", last.in.now>>

\* the database scan of the coordinator's agent failed and the tool returned a value
C5_Witness ==
    /\ last.op = "GTFSCoordinatorTool._run"
    /\ Configured("SAMBANOVA_API_KEY")
    /\ last.in.scan.k = "raise"
    /\ last.out.k = "return"
    /\ last.out.v.t = "str"

\* C10: one tool invocation retries nothing: GeocodingTool._run and
\* TransitRoutingTool._run issue at most one HTTP request, and exactly one when
\* the key is present; write_query calls the model at most once and executes at
\* most one generated statement, also when that call failed.
C10_NoRetry ==
    /\ last.op = "GeocodingTool._run" =>
          /\ Count(last.eff, "http") <= 1
          /\ Configured("TOMTOM_API_KEY") => Count(last.eff, "http") = 1
    /\ last.op = "TransitRoutingTool._run" =>
          /\ Count(last.eff, "http") <= 1
          /\ (Truthy(last.in.key) \/ Configured("BINGMAPS_KEY")) => Count(last.eff, "http") = 1
    /\ last.op = "write_query" =>
          /\ Count(last.eff, "llm") <= 1
          /\ Count(last.eff, "sql") <= 1

\* a request failed, a model call succeeded and its statement failed: each once
C10_Witness ==
    /\ last.op = "write_query"
    /\ last.in.llm.k = "ok"
    /\ last.in.db.k = "raise"
    /\ last.in.db.at = "execute"
    /\ Count(last.eff, "llm") = 1
    /\ Count(last.eff, "sql") = 1

\* a call of GeocodingTool._run with the key present whose request got a response
GeocodingAnswered ==
    /\ last.op = "GeocodingTool._run"
    /\ Configured("TOMTOM_API_KEY")
    /\ last.in.http.k = "resp"

\* the payload {"error": <text>}
IsErrorDict(v) ==
    /\ v.t = "dict"
    /\ DOMAIN v.v = {"error"}
    /\ v.v.error.t = "str"

\* C11 (as stated): GeocodingTool._run returns an error payload if and only if
\* the key is absent or the call fails (the request raises, or the status code is
\* outside 2xx); for every 2xx response with the key present it returns the
\* provider's decoded JSON unchanged.
C11_ErrorIffNon2xx ==
    last.op = "GeocodingTool._run" =>
        /\ last.out.k = "return"
        /\ IsErrorDict(last.out.v)
              <=> (~GeocodingAnswered \/ last.in.http.status \notin 200..299)
        /\ (GeocodingAnswered /\ last.in.http.status \in 200..299) =>
              /\ last.in.http.body.json
              /\ last.out.v = Dict(last.in.http.body.val)

\* C11 (amended): GeocodingTool._run returns the provider's decoded JSON
\* unchanged when the key is present, the request returns, the status code is 200
\* and the body is JSON; in every other case (key absent or empty, secrets
\* unreadable, the request raises, a status code other than 200, a body that is
\* not JSON) it returns an error payload {'error': text}.
C11_ErrorIffNot200OrUndecodable ==
    last.op = "GeocodingTool._run" =>
        /\ last.out.k = "return"
        /\ IF GeocodingAnswered /\ last.in.http.status = 200 /\ last.in.http.body.json
           THEN last.out.v = Dict(last.in.http.body.val)
           ELSE IsErrorDict(last.out.v)

\* a 2xx status other than 200 was answered with an error payload
C11_Witness ==
    /\ GeocodingAnswered
    /\ last.in.http.status = 201
    /\ last.in.http.body.json
    /\ IsErrorDict(last.out.v)
    /\ Count(last.eff, "http") = 1

\* an invocation of GTFSCoordinatorTool._run has scanned the catalog to its end
\* and built the table_info text
CoordinatorBuiltSchema ==
    /\ last.op = "GTFSCoordinatorTool._run"
    /\ last.in.scan.k = "ok"
    /\ Count(last.eff, "scan") > 0

\* C12: the table_info text is built by scanning the catalog at most once in the
\* lifetime of the process: after an invocation of GTFSCoordinatorTool._run that
\* built it, a further invocation scans nothing.
C12_CatalogScannedOnce ==
    [][ (CoordinatorBuiltSchema /\ last'.op = "GTFSCoordinatorTool._run")
            => Count(last'.eff, "scan") = 0 ]_vars

\* write_query got a completion from the model
QueryGenerated ==
    /\ last.op = "write_query"
    /\ last.out.k = "return"
    /\ last.in.llm.k = "ok"

\* the statements the call executed, in order
SqlStatements == SelectSeq(last.eff, LAMBDA e : e.kind = "sql")

\* the database could not be opened: nothing is executed
ConnectFailed == last.in.db.k = "raise" /\ last.in.db.at = "connect"

HasBar(text) == \E i \in 1..Len(text) : text[i] = "|"

IsTrimOf(text, completion) ==
    \E i \in 0..Len(completion) : \E j \in i..Len(completion) :
        /\ text = SubSeq(completion, i + 1, j)
        /\ \A k \in 1..i : completion[k] \in {" ", "\n"}
        /\ \A k \in (j + 1)..Len(completion) : completion[k] \in {" ", "\n"}
        /\ text # << >> => (text[1] \notin {" ", "\n"} /\ text[Len(text)] \notin {" ", "\n"})

\* C19: write_query hands the model's completion to run_query as received apart
\* from the surrounding whitespace, whatever the text is (a read statement, a
\* write statement, no SQL at all), and a 'query' it returns is the string that
\* was handed to run_query.
C19_CompletionExecutedAsReceived ==
    QueryGenerated =>
        /\ Len(SqlStatements) = (IF ConnectFailed THEN 0 ELSE 1)
        /\ \A i \in 1..Len(SqlStatements) :
              IsTrimOf(SqlStatements[i].stmt, last.in.llm.content)
        /\ last.out.v.v.query # None =>
              /\ last.out.v.v.query.t = "str"
              /\ IsTrimOf(last.out.v.v.query.v, last.in.llm.content)
              /\ \A i \in 1..Len(SqlStatements) :
                    SqlStatements[i].stmt = last.out.v.v.query.v
        /\ last.out.v.v.query = None =>
              (last.in.db.k = "raise" /\ ~IsSqliteError(last.in.db.cls))

\* a completion that is no SQL, in whitespace, was trimmed, executed and returned
C19_Witness ==
    /\ QueryGenerated
    /\ last.in.llm.content = <<"\n", "Sure! Here is the query:", "\n", "SELECT 1", " ">>
    /\ Len(SqlStatements) = 1
    /\ SqlStatements[1].stmt = <<"Sure! Here is the query:", "\n", "SELECT 1">>
    /\ last.out.v.v.query = Str(SqlStatements[1].stmt)

\* the connections a call opened: connect effects that gave a connection
Opened(eff) == Len(SelectSeq(eff, LAMBDA e : e.kind = "connect" /\ e.ok))

\* C21: every connection run_query opens is closed when run_query returns, on
\* the success path and on the driver-error path alike, so that no sequence of
\* run_query calls leaves a connection open.
C21_RunQueryClosesConnection ==
    (last.op = "run_query" /\ last.out.k = "return") =>
        Count(last.eff, "close") = Opened(last.eff)

\* fetch_response got as far as its HTTP request and the request returned
RoutingAnswered ==
    /\ last.op = "fetch_response"
    /\ Count(last.eff, "http") = 1
    /\ last.in.http.k = "resp"

\* C18: fetch_response never raises; a response with a status other than 200
\* yields an error payload; a request that raises, a body that is not JSON and a
\* document that lacks an expected field yield the all-null result, as does every
\* call that made no request and returned no error payload.
C18_FetchResponseNeverRaises ==
    last.op = "fetch_response" =>
        /\ last.out.k = "return"
        /\ (RoutingAnswered /\ last.in.http.status # 200) => IsErrorDict(last.out.v)
        /\ (Count(last.eff, "http") = 1 /\ last.in.http.k = "raise")
              => last.out.v = EmptyRoute
        /\ (RoutingAnswered /\ last.in.http.status = 200
              /\ (~last.in.http.body.json \/ last.in.http.body.val \in MalformedRoutes))
              => last.out.v = EmptyRoute
        /\ Count(last.eff, "http") = 0
              => (last.out.v = EmptyRoute \/ IsErrorDict(last.out.v))

----------------------------------------------------------------------------
(* Properties of the asynchronous variants (specification AsyncSpec) *)

\* C15: while the synchronous call of an _arun is in progress the event loop is
\* not blocked: the other task, if it has steps left, can take one.
C15_LoopNotBlocked ==
    (loop.pc = "in_run" /\ loop.ticks < MaxTicks) => ENABLED OtherTask

\* C24: an _arun performs the same external calls and returns the same result
\* as the _run of its tool called with the same explicit arguments and with the
\* same arguments left to their defaults.
C24_ArunSameAsRun ==
    last.op = "_arun" =>
        /\ last.out = last.in.sync.out
        /\ last.eff = last.in.sync.eff

----------------------------------------------------------------------------
(* Properties of the schema text (specification SchemaSpec) *)

\* text.split(sep)
RECURSIVE SplitAt(_, _, _)
SplitAt(s, sep, part) ==
    IF s = << >> THEN << part >>
    ELSE IF Head(s) = sep THEN << part >> \o SplitAt(Tail(s), sep, << >>)
    ELSE SplitAt(Tail(s), sep, Append(part, Head(s)))

\* the column a line 'Column: <name>, Type: <type>' names
ReadColumn(line) ==
    IF Len(line) = 4 /\ line[1] = "Column: " /\ line[3] = ", Type: "
    THEN [name |-> line[2], type |-> line[4]]
    ELSE [name |-> "?", type |-> "?"]

\* the table a block of the text names, with its columns top to bottom
ReadTable(block) ==
    IF Len(block) < 3 \/ block[1] # "Database: merged_gtfs.db\nTable: " \/ block[3] # "\n"
    THEN [name |-> "?", cols |-> << >>]
    ELSE LET lines == IF Len(block) = 3 THEN << >>
                      ELSE SplitAt(SubSeq(block, 4, Len(block)), "\n", << >>)
         IN  [name |-> block[2], cols |-> [i \in 1..Len(lines) |-> ReadColumn(lines[i])]]

\* the tables a schema text names, top to bottom
ReadTableInfo(text) ==
    IF text = << >> THEN << >>
    ELSE LET blocks == SplitAt(text, "\n\n", << >>)
         IN  [i \in 1..Len(blocks) |-> ReadTable(blocks[i])]

\* a call of table_info built the text
BuiltTableInfo ==
    /\ last.op = "table_info"
    /\ last.out.k = "return"
    /\ ~last.in.was_initialized

\* C13: the table_info text names the tables in catalog order, each with its
\* columns in declared order as 'Column: <name>, Type: <type>' lines, and two
\* constructions over the same catalog give the same text.
C13_SchemaTextDeterministic ==
    BuiltTableInfo =>
        /\ last.out.v.t = "str"
        /\ ReadTableInfo(last.out.v.v) = last.in.scan.tables
        /\ (last.in.prev.k = "built" /\ last.in.prev.tables = last.in.scan.tables)
              => last.in.prev.text = last.out.v

\* a second construction over a catalog of two tables, one with two columns
C13_Witness ==
    /\ BuiltTableInfo
    /\ last.in.prev.k = "built"
    /\ last.in.prev.tables = last.in.scan.tables
    /\ last.in.scan.tables = << StopsTable, RoutesTable >>
    /\ last.out.v = agent._table_info

\* the agent's lazily built fields are all set
FieldsSet(ag) ==
    /\ ag._model # None
    /\ ag._sys_msg # None
    /\ ag._hum_msg # None
    /\ ag._table_info # None

\* a call that goes through _initialize
InitializingCall == CallTableInfo \/ CallWriteQuery

\* C20: _initialized implies that _model, _sys_msg, _hum_msg and _table_info
\* are set; an _initialize that raises on an agent that was not initialised
\* leaves _initialized false; a call through _initialize on an initialised agent
\* leaves the agent as it was and performs no scan of the database.
C20_LazyInitConsistent ==
    /\ [](agent._initialized => FieldsSet(agent))
    /\ []((last.op \in {"table_info", "write_query"} /\ ~last.in.was_initialized
            /\ last.out.k = "raise") => ~agent._initialized)
    /\ [][(agent._initialized /\ InitializingCall) =>
             /\ agent' = agent
             /\ Count(last'.eff, "scan") = 0]_vars

\* table_info was read on an initialised agent while the catalog holds other
\* tables than the text describes
C20_Witness ==
    /\ last.op = "table_info"
    /\ last.in.was_initialized
    /\ agent._initialized
    /\ last.eff = << >>
    /\ last.in.scan.k = "ok"
    /\ agent._table_info # Str(RenderTableInfo(last.in.scan.tables))

\* an initialisation that failed after the prompts were set
C20_WitnessPartWay ==
    /\ last.op = "table_info"
    /\ last.out.k = "raise"
    /\ ~agent._initialized
    /\ agent._sys_msg # None

----------------------------------------------------------------------------
(* Properties of the session (specification AppSpec) *)

\* the failures of the model's endpoint: the key is missing or refused, the
\* endpoint cannot be reached
ModelFailureClasses ==
    {"KeyError", "FileNotFoundError", "AuthenticationError", "APIConnectionError"}

\* C6: a text turn in which the model's endpoint cannot be reached or its key is
\* missing ends with send_to_llm returning (no exception escapes it) and with an
\* assistant entry after the user message.
C6_ModelFailureIsAnswered ==
    (/\ last_run.branch = "text"
     /\ last_run.llm.k = "raise" => last_run.llm.cls \in ModelFailureClasses)
    => /\ last_run.llm.k = "return"
       /\ messages[Len(messages)].role = "assistant"

\* C14: st.session_state.messages is append-only: over every script run of app.py
\* and of newfront.py its previous content stays a prefix of its current content.
C14_MessagesAppendOnly ==
    [][ /\ Len(messages') >= Len(messages)
        /\ SubSeq(messages', 1, Len(messages)) = messages ]_vars

\* a conversation that grew over two script runs
C14_Witness ==
    /\ Len(messages) >= 3
    /\ runs >= 2
    /\ messages[1].role = "user"

\* the entries a submission of the text can add to the conversation: none for an
\* empty text; else the user's entry, followed by the assistant's entry if
\* send_to_llm returns
TurnEntries(text) ==
    IF ~Truthy(Str(text)) THEN { << >> }
    ELSE { << Message("user", Str(text)) >> : r \in { x \in send_to_llm : x.k = "raise" } }
         \cup { << Message("user", Str(text)), Message("assistant", r.v) >> :
                  r \in { x \in send_to_llm : x.k = "return" } }

C22_AudioAnsweredOnce ==
    last_run.branch = "audio" => audio_data = None

\* C23: in app.py the conversation alternates user and assistant entries and
\* starts with a user entry, so every assistant entry follows the user entry it
\* answers.
C23_MessagesAlternate ==
    \A i \in 1..Len(messages) :
        messages[i].role = (IF i % 2 = 1 THEN "user" ELSE "assistant")

----------------------------------------------------------------------------
(* Properties of the Dispatcher (specifications DispatchSpec, FairDispatchSpec) *)

\* C7: once a tool invocation of the turn has returned an error payload, the
\* Dispatcher invokes no further tool.
C7_NoToolAfterErrorPayload ==
    error_seen => pc # "invoking_tool"

\* C8: whatever the model chooses, a dispatch turn that has started reaches the
\* state done.
C8_TurnReachesDone ==
    (pc = "awaiting_decision") ~> (pc = "done")

\* a tool invocation has ended with the wrapper returning
ToolReturned ==
    /\ pc = "invoking_tool"
    /\ pc' # "invoking_tool"
    /\ pc' # "raised"

\* the wrapper's result is added to the model's context
ResultJoinsContext ==
    /\ n_obs' = n_obs + 1
    /\ last_obs' \in { r.v : r \in { x \in ToolOutcomes(tool.name, tool.input) : x.k = "return" } }

\* the turn reaches done
TurnDone ==
    /\ pc # "done"
    /\ pc' = "done"

\* C9 (as stated): every tool invocation that gives a result is followed by a
\* return to awaiting-decision with the result added to the model's context, and
\* done is reached only from composing-answer, with the model's final answer.
C9_DoneOnlyThroughComposing ==
    [][ /\ ToolReturned => (pc' = "awaiting_decision" /\ ResultJoinsContext)
        /\ TurnDone => (pc = "composing_answer" /\ output'.from = "agent_finish")
      ]_vars

\* C9 (amended): a tool invocation whose wrapper returns adds the result to the
\* model's context and goes back to awaiting-decision, except that the invocation
\* that uses up the last of the max_iterations iterations goes to done with the
\* fixed stop message; a wrapper that raises ends the turn with the exception.  A
\* tool's raw output is never the returned answer: done is reached from
\* composing-answer with the model's final answer, or by the iteration limit.
C9_DoneThroughComposingOrLimit ==
    [][ /\ (pc = "invoking_tool" /\ pc' # "invoking_tool")
            => \/ pc' = "raised" /\ output'.k = "raise" /\ n_obs' = n_obs
               \/ /\ ResultJoinsContext
                  /\ \/ pc' = "awaiting_decision" /\ iterations' < max_iterations
                     \/ /\ pc' = "done"
                        /\ iterations' = max_iterations
                        /\ output' = Returned("stopped", Str(StoppedMessage))
        /\ TurnDone
            => /\ output'.from \in {"agent_finish", "stopped"}
               /\ \/ pc = "composing_answer" /\ output'.from = "agent_finish"
                  \/ pc = "invoking_tool" /\ output'.from = "stopped"
      ]_vars

\* a tool's result has gone back to the model, which then gave its final answer
C9_Witness ==
    /\ pc = "done"
    /\ output.from = "agent_finish"
    /\ n_obs > 0
    /\ last_obs # None

====
